---- MODULE Spec2Model ----
(***************************************************************************)
(* Model of the grading pipeline of bkms1-25fa-nl2sql: the SQL executor    *)
(* (grader.py and autograder.py), the submission query loader (grader.py)  *)
(* and the two grading runs (main of grader.py and of autograder.py).      *)
(*                                                                         *)
(* Text is modelled as a sequence of atoms.  An atom is a TLA+ string that *)
(* stands for a run of characters of the Python string: a single character *)
(* in column names, cell values and separators (so lengths are character   *)
(* counts there), a whole word for SQL keywords and for the fixed texts    *)
(* of the program ("N/A", "(No rows returned)", ...).                      *)
(***************************************************************************)
EXTENDS Naturals, Integers, Sequences, FiniteSets, TLC

VARIABLES
    script,        \* which script runs: "grader" (grader.py) or "autograder" (autograder.py)
    db,            \* the committed content of the test database's table
    txn,           \* transaction state the engine's connection was left in
    exIn,          \* SpecExec: the arguments of the last execute_sql call
    exOut,         \* SpecExec: what the last execute_sql call produced
    exPrevFailed,  \* SpecExec: the call before the last one returned an error
    ldFile,        \* SpecLoad: the file given to load_submitted_queries
    ldOut,         \* SpecLoad: what load_submitted_queries produced
    subsDir,       \* the submissions directory: directory name -> its listing
    solutionDir,   \* the solution directory: the names of its files
    pc,            \* where main is: start, solutions, scan, submission, query, ended
    run,           \* which run of the script this is (1 or 2)
    exit,          \* how the run ended: "" running, "0", "1" exit status
    crash,         \* the exception that ended the run, "" if none
    env,           \* what setup found: configuration, database, results directory
    solution_queries, \* grader.py: the golden mapping index -> SQL text
    order,         \* sorted(submission_dirs)
    subPos,        \* position in order of the submission being processed
    queryFile,     \* name of the query file of that submission
    submitted_queries, \* its loaded candidate list
    qIdx,          \* index i of the candidate entry to grade next
    loaded,        \* this run: position in order -> candidate list loaded there
    written,       \* this run: the reports written, in order
    reports,       \* the results directory: report path -> content
    reports1,      \* the results directory as the first run left it
    written1,      \* the report paths the first run wrote
    runStart,      \* per run: the committed table and the environment it started with
    engine,        \* main.py: the logging engine, "None" when logging is not set up
    query_history_table, \* main.py: the logging table object, "None" when not set up
    chatPc,        \* main.py loop: prompt, agent, log, exited, crashed
    turn,          \* main.py loop: user_input, generated_sql, final_answer, status
    turns,         \* main.py loop: inputs other than exit handled so far
    logCalls,      \* main.py: the calls of log_interaction, in order
    query_history  \* main.py: the rows committed to the query_history table

vars == <<script, db, txn, exIn, exOut, exPrevFailed, ldFile, ldOut, subsDir, solutionDir,
          pc, run, exit, crash, env, solution_queries, order, subPos, queryFile, submitted_queries,
          qIdx, loaded, written, reports, reports1, written1, runStart,
          engine, query_history_table, chatPc, turn, turns, logCalls, query_history>>
chatVars == <<engine, query_history_table, chatPc, turn, turns, logCalls, query_history>>
inputVars == <<script, subsDir, solutionDir>>
runVars == <<pc, run, exit, crash, env, solution_queries, order, subPos, queryFile, submitted_queries,
             qIdx, loaded, written, reports, reports1, written1, runStart>>
execVars == <<exIn, exOut, exPrevFailed>>
loadVars == <<ldFile, ldOut>>

\* ------------------------------------------------------------------ bounds
\* most white space atoms put before, and after, a SQL text in SpecExec
MaxPad == 1
\* longest query file, in tokens, among all token sequences tried in SpecLoad
MaxFileLen == 3
\* longest list of strings written out as a query file in SpecLoad
MaxList == 2
\* longest candidate list of a submission in a grading run
MaxQueries == 2
\* most inputs other than exit given to the chatbot loop
MaxTurns == 2
\* most files in the submission directory whose query file is resolved
MaxDir == 3

\* ------------------------------------------------------------ text helpers
RECURSIVE Join(_, _)
\* sep.join(parts) of Python: parts joined by sep
Join(sep, parts) ==
    IF parts = <<>> THEN <<>>
    ELSE IF Len(parts) = 1 THEN parts[1]
    ELSE parts[1] \o sep \o Join(sep, Tail(parts))

RECURSIVE Repeat(_, _)
\* atom * n of Python
Repeat(atom, n) == IF n = 0 THEN <<>> ELSE <<atom>> \o Repeat(atom, n - 1)

\* str.isspace of one atom
IsSpace(a) == a \in {" ", "\n", "\t"}

RECURSIVE LStrip(_)
LStrip(s) == IF s # <<>> /\ IsSpace(Head(s)) THEN LStrip(Tail(s)) ELSE s

RECURSIVE RStrip(_)
RStrip(s) ==
    IF s # <<>> /\ IsSpace(s[Len(s)]) THEN RStrip(SubSeq(s, 1, Len(s) - 1)) ELSE s

\* str.strip()
Strip(s) == RStrip(LStrip(s))

\* s.startswith(p)
StartsWith(s, p) == Len(s) >= Len(p) /\ SubSeq(s, 1, Len(p)) = p

\* p occurs in s as a contiguous run
IsInfix(p, s) ==
    \E k \in 0..(Len(s) - Len(p)) : SubSeq(s, k + 1, k + Len(p)) = p

RECURSIVE SplitFrom(_, _, _, _)
\* s.split(sep) for a one-atom sep: cur is the part being collected
SplitFrom(s, sep, cur, acc) ==
    IF s = <<>> THEN Append(acc, cur)
    ELSE IF Head(s) = sep THEN SplitFrom(Tail(s), sep, <<>>, Append(acc, cur))
    ELSE SplitFrom(Tail(s), sep, Append(cur, Head(s)), acc)

\* s.split(sep)
Split(s, sep) == SplitFrom(s, sep, <<>>, <<>>)

\* the lines of a text
Lines(s) == Split(s, "\n")

\* all sequences over S of length at most n
SeqsUpTo(S, n) == UNION {[1..k -> S] : k \in 0..n}

\* Python's None and a present value, as one comparable shape
None == [none |-> TRUE, v |-> <<>>]
Some(x) == [none |-> FALSE, v |-> x]

\* ------------------------------------------------------------- the scripts
Scripts == {"grader", "autograder"}

\* the fixed texts of execute_sql
NA == <<"N/A">>
NoQuery == <<"(No query to execute)">>
NoRows == <<"(No rows returned)">>
ErrorPrefix == <<"ERROR: ">>

\* ------------------------------------------------------- the test database
\* The database server is outside the repository; what follows is the part
\* of its behaviour execute_sql depends on.  A table is a sequence of rows,
\* a row a sequence of typed values.
IntV(n) == [t |-> "int", n |-> n, s |-> <<>>]
TextV(s) == [t |-> "text", n |-> 0, s |-> s]
NullV == [t |-> "null", n |-> 0, s |-> <<>>]

\* column names of the table the statements read
Headers == << <<"i", "d">>, <<"n">> >>

RowA == <<IntV(1), TextV(<<"a">>)>>
RowB == <<IntV(2), NullV>>
RowNL == <<IntV(3), TextV(<<"x", "\n", "y">>)>>

\* the tables a run can start from
Tables == {<<>>, <<RowA>>, <<RowA, RowB>>, <<RowB, RowA>>, <<RowNL>>}

Digits == <<"0", "1", "2", "3", "4", "5", "6", "7", "8", "9">>

RECURSIVE IntStr(_)
\* str(n) of a natural number
IntStr(n) == IF n < 10 THEN <<Digits[n + 1]>> ELSE IntStr(n \div 10) \o <<Digits[(n % 10) + 1]>>

\* str(value) of a value fetched from the database
Str(v) ==
    CASE v.t = "int" -> IntStr(v.n)
      [] v.t = "text" -> v.s
      [] OTHER -> <<"N", "o", "n", "e">>

\* failure details (the text of the exception)
ErrConnect == <<"connection refused">>
ErrSyntax == <<"syntax error">>
ErrEmpty == <<"can't execute an empty query">>
ErrNoRows == <<"This result object does not return rows">>
ErrAborted == <<"current transaction is aborted">>

\* the statement the server sees: the text without its white space
Statement(sql) == SelectSeq(sql, LAMBDA a : ~IsSpace(a))

\* connection.execute(text(sql)) on a connection whose transaction state is
\* txn: ok or the error, whether a result set comes back, the rows, and the
\* committed table afterwards.  DELETE changes the table inside the open
\* transaction only; DELCOMMIT ("DELETE ...; COMMIT") commits the change.
DbExecute(tx, tbl, sql) ==
    LET st == Statement(sql) IN
    IF tx = "aborted" THEN
        [ok |-> FALSE, error |-> ErrAborted, returnsRows |-> FALSE, rows |-> <<>>, db |-> tbl]
    ELSE IF st = <<>> THEN
        [ok |-> FALSE, error |-> ErrEmpty, returnsRows |-> FALSE, rows |-> <<>>, db |-> tbl]
    ELSE IF st = <<"SELECT">> THEN
        [ok |-> TRUE, error |-> <<>>, returnsRows |-> TRUE, rows |-> tbl, db |-> tbl]
    ELSE IF st = <<"DELETE">> THEN
        [ok |-> TRUE, error |-> <<>>, returnsRows |-> FALSE, rows |-> <<>>, db |-> tbl]
    ELSE IF st = <<"DELCOMMIT">> THEN
        [ok |-> TRUE, error |-> <<>>, returnsRows |-> FALSE, rows |-> <<>>, db |-> <<>>]
    ELSE
        [ok |-> FALSE, error |-> ErrSyntax, returnsRows |-> FALSE, rows |-> <<>>, db |-> tbl]

\* ------------------------------------------------------------- execute_sql
\* the guard of execute_sql: the texts that are not executed
NoQueryGuard(scr, sql_query) ==
    IF scr = "grader"
    THEN sql_query = <<>> \/ Strip(sql_query) = <<>> \/ Strip(sql_query) = NA
    ELSE sql_query = <<>> \/ sql_query = NA

\* " | ".join(map(str, row))
RowStr(row) == Join(<<" ", "|", " ">>, [j \in 1..Len(row) |-> Str(row[j])])

\* the table rendering of a result with at least one row
Render(headers, rows) ==
    LET header_str == Join(<<" ", "|", " ">>, headers)
        separator == Repeat("-", Len(header_str))
        row_strs == [r \in 1..Len(rows) |-> RowStr(rows[r])]
    IN <<"\n">> \o header_str \o <<"\n">> \o separator \o <<"\n">> \o Join(<<"\n">>, row_strs)

\* what the except clause of execute_sql returns for failure detail e
Failed(e, tx, tbl, connects, executes) ==
    [ret |-> <<ErrorPrefix \o e, Some(e)>>, raised |-> FALSE, txn |-> tx, db |-> tbl,
     connects |-> connects, executes |-> executes]

\* execute_sql with a try block that ends before fetchall: the failure of
\* a statement that returns no result set leaves the function
execute_sql_fetch_unguarded(scr, tx, tbl, sql_query, connOk) ==
    IF NoQueryGuard(scr, sql_query) THEN
        [ret |-> <<NoQuery, None>>, raised |-> FALSE, txn |-> tx, db |-> tbl,
         connects |-> 0, executes |-> 0]
    ELSE IF ~connOk THEN Failed(ErrConnect, tx, tbl, 1, 0)
    ELSE
        LET result == DbExecute(tx, tbl, sql_query) IN
        IF ~result.ok THEN Failed(result.error, "clean", result.db, 1, 1)
        ELSE IF ~result.returnsRows THEN
            [ret |-> <<<<>>, None>>, raised |-> TRUE, txn |-> "clean", db |-> result.db,
             connects |-> 1, executes |-> 1]
        ELSE IF result.rows = <<>> THEN
            [ret |-> <<NoRows, None>>, raised |-> FALSE, txn |-> "clean", db |-> result.db,
             connects |-> 1, executes |-> 1]
        ELSE
            [ret |-> <<Render(Headers, result.rows), None>>, raised |-> FALSE,
             txn |-> "clean", db |-> result.db, connects |-> 1, executes |-> 1]

\* execute_sql(engine, sql_query) of either script.  tx is the state the
\* previous use left the engine's connection in, tbl the committed table,
\* connOk whether engine.connect() succeeds.  The result carries the
\* returned pair, whether an exception left the function, the state left
\* behind, and how many connections were opened and statements sent.
\* Leaving the with block closes the connection, which rolls back whatever
\* was not committed, on the normal and on the exceptional path.
execute_sql(scr, tx, tbl, sql_query, connOk) ==
    IF NoQueryGuard(scr, sql_query) THEN
        [ret |-> <<NoQuery, None>>, raised |-> FALSE, txn |-> tx, db |-> tbl,
         connects |-> 0, executes |-> 0]
    ELSE IF ~connOk THEN Failed(ErrConnect, tx, tbl, 1, 0)
    ELSE
        LET result == DbExecute(tx, tbl, sql_query) IN
        IF ~result.ok THEN Failed(result.error, "clean", result.db, 1, 1)
        ELSE IF ~result.returnsRows THEN Failed(ErrNoRows, "clean", result.db, 1, 1)
        ELSE IF result.rows = <<>> THEN
            [ret |-> <<NoRows, None>>, raised |-> FALSE, txn |-> "clean", db |-> result.db,
             connects |-> 1, executes |-> 1]
        ELSE
            [ret |-> <<Render(Headers, result.rows), None>>, raised |-> FALSE,
             txn |-> "clean", db |-> result.db, connects |-> 1, executes |-> 1]

\* ------------------------------------------------- submission query files
\* The content of a query file is a sequence of tokens of Python source:
\* the brackets and comma of a list display, string literals (v is the SQL
\* text), a number literal (0), "name =" of an assignment (v is the name),
\* the call exit(), the keyword raise, and the display {[]: 0}, a literal
\* whose evaluation fails with TypeError.  A file is one statement.
Tok(k) == [k |-> k, v |-> <<>>]
StrTok(text) == [k |-> "str", v |-> text]
AssignTok(name) == [k |-> "assign", v |-> name]

\* syntax tree nodes and Python values share one shape
Node(k, v, items) == [k |-> k, v |-> v, items |-> items]
NoNode == Node("none", <<>>, <<>>)
ParseFail == [ok |-> FALSE, node |-> NoNode, next |-> 0]
ParseOk(node, next) == [ok |-> TRUE, node |-> node, next |-> next]

RECURSIVE ParseStrings(_, _, _)
RECURSIVE ParseAtom(_, _)
RECURSIVE ParseTrailers(_, _)
RECURSIVE ParseItems(_, _, _)
RECURSIVE ParseExprList(_, _)
RECURSIVE ParseTupleRest(_, _, _)

\* adjacent string literals are one string
ParseStrings(toks, i, acc) ==
    IF i <= Len(toks) /\ toks[i].k = "str"
    THEN ParseStrings(toks, i + 1, acc \o toks[i].v)
    ELSE ParseOk(Node("str", acc, <<>>), i)

\* an atom of the expression grammar starting at token i
ParseAtom(toks, i) ==
    IF i > Len(toks) THEN ParseFail
    ELSE CASE toks[i].k = "str" -> ParseStrings(toks, i, <<>>)
           [] toks[i].k = "num" -> ParseOk(Node("num", <<>>, <<>>), i + 1)
           [] toks[i].k = "exit" -> ParseOk(Node("call", <<>>, <<>>), i + 1)
           [] toks[i].k = "tyerr" -> ParseOk(Node("baddict", <<>>, <<>>), i + 1)
           [] toks[i].k = "[" -> ParseItems(toks, i + 1, <<>>)
           [] OTHER -> ParseFail

\* the subscription base[index] closed by "]" after the parsed index idx
TrailerAfter(toks, p, idx) ==
    IF ~idx.ok \/ idx.next > Len(toks) THEN ParseFail
    ELSE IF toks[idx.next].k # "]" THEN ParseFail
    ELSE ParseTrailers(toks,
             ParseOk(Node("subscript", <<>>, <<p.node, idx.node>>), idx.next + 1))

\* subscriptions base[index] after the parsed atom p
ParseTrailers(toks, p) ==
    IF ~p.ok \/ p.next > Len(toks) THEN p
    ELSE IF toks[p.next].k # "[" THEN p
    ELSE TrailerAfter(toks, p, ParseExprList(toks, p.next + 1))

\* one expression starting at token i
ParseExpr(toks, i) == ParseTrailers(toks, ParseAtom(toks, i))

\* what follows the parsed element e of a list display
ItemsAfter(toks, acc, e) ==
    IF ~e.ok \/ e.next > Len(toks) THEN ParseFail
    ELSE IF toks[e.next].k = "," THEN ParseItems(toks, e.next + 1, Append(acc, e.node))
    ELSE IF toks[e.next].k = "]"
         THEN ParseOk(Node("list", <<>>, Append(acc, e.node)), e.next + 1)
    ELSE ParseFail

\* the elements of a list display, after its "[" or after a comma
ParseItems(toks, i, acc) ==
    IF i > Len(toks) THEN ParseFail
    ELSE IF toks[i].k = "]" THEN ParseOk(Node("list", <<>>, acc), i + 1)
    ELSE ItemsAfter(toks, acc, ParseExpr(toks, i))

\* what follows the parsed element e of a tuple without parentheses
TupleAfter(toks, i, acc, e) ==
    IF ~e.ok THEN ParseOk(Node("tuple", <<>>, acc), i)
    ELSE IF e.next <= Len(toks) /\ toks[e.next].k = ","
         THEN ParseTupleRest(toks, e.next + 1, Append(acc, e.node))
    ELSE ParseOk(Node("tuple", <<>>, Append(acc, e.node)), e.next)

\* the rest of a tuple without parentheses, after a comma
ParseTupleRest(toks, i, acc) == TupleAfter(toks, i, acc, ParseExpr(toks, i))

\* the parsed expression e, or the tuple it starts
ExprListAfter(toks, e) ==
    IF ~e.ok THEN ParseFail
    ELSE IF e.next <= Len(toks) /\ toks[e.next].k = ","
         THEN ParseTupleRest(toks, e.next + 1, <<e.node>>)
    ELSE e

\* an expression, or expressions separated by commas (a tuple)
ParseExprList(toks, i) == ExprListAfter(toks, ParseExpr(toks, i))

\* the parse p if it is a whole one ending with the tokens
Whole(toks, p) == IF p.ok /\ p.next = Len(toks) + 1 THEN p ELSE ParseFail

\* the outcome of evaluating: exc is "" when a value came out
Value(val) == [exc |-> "", val |-> val]
Raises(exc) == [exc |-> exc, val |-> NoNode]

\* the display of kind k made of the evaluated elements r
Display(k, r) == IF r.exc # "" THEN r ELSE Value(Node(k, <<>>, r.val.items))

RECURSIVE Convert(_)
RECURSIVE ConvertAll(_, _)
\* _convert of ast.literal_eval: constants and displays of constants only
Convert(node) ==
    CASE node.k \in {"str", "num"} -> Value(node)
      [] node.k \in {"list", "tuple"} -> Display(node.k, ConvertAll(node.items, <<>>))
      [] node.k = "baddict" -> Raises("TypeError")
      [] OTHER -> Raises("ValueError")

\* the elements after the converted first one r
ConvertRest(nodes, acc, r) ==
    IF r.exc # "" THEN r ELSE ConvertAll(Tail(nodes), Append(acc, r.val))

\* the elements converted from left to right; the first failure wins
ConvertAll(nodes, acc) ==
    IF nodes = <<>> THEN Value(Node("list", <<>>, acc))
    ELSE ConvertRest(nodes, acc, Convert(Head(nodes)))

\* the conversion of the parse p of the whole content
ConvertParsed(p) == IF ~p.ok THEN Raises("SyntaxError") ELSE Convert(p.node)

\* ast.literal_eval(content)
literal_eval(toks) == ConvertParsed(Whole(toks, ParseExprList(toks, 1)))

RECURSIVE Eval(_)
RECURSIVE EvalAll(_, _)

\* base[index] at run time; the number literal is 0
Subscript(base, index) ==
    IF index.k # "num" THEN Raises("TypeError")
    ELSE IF base.k \in {"list", "tuple"}
         THEN IF base.items = <<>> THEN Raises("IndexError") ELSE Value(base.items[1])
    ELSE IF base.k = "str"
         THEN IF base.v = <<>> THEN Raises("IndexError")
              ELSE Value(Node("str", <<base.v[1]>>, <<>>))
    ELSE Raises("TypeError")

\* the subscription of the evaluated base b by the evaluated index x
SubscriptVal(b, x) == IF x.exc # "" THEN x ELSE Subscript(b.val, x.val)

\* the subscription node of the evaluated base b: the index comes second
SubscriptOf(node, b) == IF b.exc # "" THEN b ELSE SubscriptVal(b, Eval(node.items[2]))

\* the interpreter evaluating an expression: exit() is really called
Eval(node) ==
    CASE node.k \in {"str", "num"} -> Value(node)
      [] node.k \in {"list", "tuple"} -> Display(node.k, EvalAll(node.items, <<>>))
      [] node.k = "call" -> Raises("SystemExit")
      [] node.k = "subscript" -> SubscriptOf(node, Eval(node.items[1]))
      [] OTHER -> Raises("TypeError")

\* the elements after the evaluated first one r
EvalRest(nodes, acc, r) ==
    IF r.exc # "" THEN r ELSE EvalAll(Tail(nodes), Append(acc, r.val))

\* the elements evaluated from left to right; the first exception wins
EvalAll(nodes, acc) ==
    IF nodes = <<>> THEN Value(Node("list", <<>>, acc))
    ELSE EvalRest(nodes, acc, Eval(Head(nodes)))

\* a query file: whether it can be read and decoded, and its tokens
File(status, toks) == [status |-> status, toks |-> toks]

RECURSIVE Targets(_)
\* the names assigned by the leading "name =" tokens of a statement
Targets(toks) ==
    IF toks # <<>> /\ Head(toks).k = "assign"
    THEN <<Head(toks).v>> \o Targets(Tail(toks))
    ELSE <<>>

ModuleResult(exc, names, val) == [exc |-> exc, names |-> names, val |-> val]

\* "raise <expression>": the expression is evaluated, then raising what is
\* no exception fails with TypeError
RaiseOf(r) == ModuleResult(IF r.exc # "" THEN r.exc ELSE "TypeError", <<>>, NoNode)

\* the statement "raise <expression>" whose expression parsed as p
RaiseStatement(p) ==
    IF ~p.ok THEN ModuleResult("SyntaxError", <<>>, NoNode) ELSE RaiseOf(Eval(p.node))

\* the names bound to the evaluated right-hand side r
Bind(names, r) ==
    IF r.exc # "" THEN ModuleResult(r.exc, <<>>, NoNode) ELSE ModuleResult("", names, r.val)

\* the statement "names = <expressions>" whose right-hand side parsed as p
AssignStatement(names, p) ==
    IF ~p.ok THEN ModuleResult("SyntaxError", <<>>, NoNode) ELSE Bind(names, Eval(p.node))

\* spec.loader.exec_module(queries_module): the file compiled and run as a
\* module; the names it binds and their value, or the exception
exec_module(file) ==
    IF file.status = "oserror" THEN ModuleResult("OSError", <<>>, NoNode)
    ELSE IF file.status = "undecodable" THEN ModuleResult("SyntaxError", <<>>, NoNode)
    ELSE IF file.toks = <<>> THEN ModuleResult("", <<>>, NoNode)
    ELSE IF file.toks[1].k = "raise" THEN
        IF Len(file.toks) = 1 THEN ModuleResult("RuntimeError", <<>>, NoNode)
        ELSE RaiseStatement(Whole(file.toks, ParseExpr(file.toks, 2)))
    ELSE AssignStatement(Targets(file.toks),
             Whole(file.toks, ParseExprList(file.toks, Len(Targets(file.toks)) + 1)))

\* isinstance(x, list) and all(isinstance(q, str) for q in x)
IsListOfStr(val) ==
    val.k = "list" /\ \A j \in 1..Len(val.items) : val.items[j].k = "str"

\* the Python list of strings as a sequence of texts
AsList(val) == [j \in 1..Len(val.items) |-> val.items[j].v]

\* SystemExit is no subclass of Exception; every other exception here is
CaughtByException(exc) == exc # "SystemExit"

Returned(ret, strategy, executed) ==
    [raised |-> FALSE, exc |-> "", ret |-> ret, strategy |-> strategy, executed |-> executed]
Raised(exc, executed) ==
    [raised |-> TRUE, exc |-> exc, ret |-> None, strategy |-> "none", executed |-> executed]

\* the search of the module m for a list of strings: the first name of
\* dir(module) not starting with "__" whose value is one.  One statement
\* binds one value, so every name has it.
FindQueries(m) ==
    IF m.exc # "" THEN
        IF CaughtByException(m.exc) THEN Returned(None, "none", TRUE)
        ELSE Raised(m.exc, TRUE)
    ELSE IF /\ \E j \in 1..Len(m.names) : ~StartsWith(m.names[j], <<"_", "_">>)
            /\ IsListOfStr(m.val)
         THEN Returned(Some(AsList(m.val)), "module", TRUE)
    ELSE Returned(None, "none", TRUE)

\* the module strategy of load_submitted_queries (second try block)
LoadByModule(file) == FindQueries(exec_module(file))

\* file_path.read_text() followed by ast.literal_eval(content)
ReadAndEval(file) ==
    IF file.status = "oserror" THEN Raises("OSError")
    ELSE IF file.status = "undecodable" THEN Raises("ValueError")
    ELSE literal_eval(file.toks)

\* the first try block of load_submitted_queries with the outcome queries
\* of reading and evaluating: the list, an exception other than
\* SyntaxError and ValueError, or else the module strategy
LoadFrom(file, queries) ==
    IF queries.exc = "" /\ IsListOfStr(queries.val)
    THEN Returned(Some(AsList(queries.val)), "literal", FALSE)
    ELSE IF queries.exc \notin {"", "SyntaxError", "ValueError"}
    THEN Raised(queries.exc, FALSE)
    ELSE LoadByModule(file)

\* the literal parse tried after the module strategy gave m
ModuleFirst(m, queries) ==
    IF m.raised \/ ~m.ret.none THEN m
    ELSE IF queries.exc = "" /\ IsListOfStr(queries.val)
    THEN Returned(Some(AsList(queries.val)), "literal", TRUE)
    ELSE Returned(None, "none", TRUE)

\* load_submitted_queries trying the module strategy first and the literal
\* parse second
load_submitted_queries_module_first(file) ==
    ModuleFirst(LoadByModule(file), ReadAndEval(file))

\* load_submitted_queries(file_path): the returned list or None, or the
\* exception that leaves the function; which strategy produced the list and
\* whether the file was run as code
load_submitted_queries(file) == LoadFrom(file, ReadAndEval(file))

\* ------------------------------------------------------ files and paths
\* configuration of the scripts
SUBMISSIONS_DIR == <<"/opt/pm883-1/dongkwang/ta/", "nl2sql", "/", "submissions">>
SOLUTION_QUERIES_DIR == <<"/opt/pm883-1/dongkwang/ta/", "nl2sql", "/", "solution_queries">>
RESULTS_DIR(scr) ==
    <<"/opt/pm883-1/dongkwang/ta/", "nl2sql", "/">>
        \o (IF scr = "grader" THEN <<"grade_results">> ELSE <<"autograder_results">>)
NL_QUERIES_VAR_NAME == <<"nlqueries">>

\* the character code deciding the order of two names that differ at an
\* atom (the code of the atom's first character)
Code(a) ==
    CASE a \in {"0", "1", "2", "3", "4", "5", "6", "7", "8", "9"} ->
            48 + (CHOOSE n \in 0..9 : Digits[n + 1] = a)
      [] a = "-" -> 45
      [] a \in {".", ".sql", ".py"} -> 46
      [] a = "/" -> 47
      [] a = "_" -> 95
      [] a = "a" -> 97
      [] a = "b" -> 98
      [] a = "my" -> 109
      [] a = "queries" -> 113
      [] a = "query" -> 113
      [] a \in {"sql", "submission"} -> 115
      [] a = "x" -> 120
      [] OTHER -> 0

RECURSIVE NameLess(_, _)
\* a < b for two names, as sorted() orders strings
NameLess(a, b) ==
    IF a = <<>> THEN b # <<>>
    ELSE IF b = <<>> THEN FALSE
    ELSE IF Head(a) = Head(b) THEN NameLess(Tail(a), Tail(b))
    ELSE Code(Head(a)) < Code(Head(b))

RECURSIVE Sorted(_)
\* sorted(names) of a set of names
Sorted(names) ==
    IF names = {} THEN <<>>
    ELSE LET first == CHOOSE n \in names : \A m \in names \ {n} : NameLess(n, m)
         IN <<first>> \o Sorted(names \ {first})

IsDigit(a) == \E n \in 0..9 : Digits[n + 1] = a

RECURSIVE DigitsValue(_, _)
DigitsValue(s, acc) ==
    IF s = <<>> THEN acc
    ELSE DigitsValue(Tail(s), 10 * acc + (CHOOSE n \in 0..9 : Digits[n + 1] = Head(s)))

\* int(s): the number, or ValueError for a text that is not all digits
ParseInt(s) ==
    IF s # <<>> /\ \A j \in 1..Len(s) : IsDigit(s[j])
    THEN [ok |-> TRUE, n |-> DigitsValue(s, 0)]
    ELSE [ok |-> FALSE, n |-> 0]

\* Path(f).stem of a file name: the name without its last suffix
Stem(name) == SubSeq(name, 1, Len(name) - 1)

\* glob "query-*.sql" on a file name
IsSolutionName(name) ==
    Len(name) >= 3 /\ name[1] = "query" /\ name[2] = "-" /\ name[Len(name)] = ".sql"

\* the solution files a run can find, and what each holds
SolName(n) == <<"query", "-">> \o IntStr(n) \o <<".sql">>
SolutionNames == {SolName(1), SolName(2)}
SolutionText(name) ==
    IF name = SolName(1) THEN <<"SELECT">>
    ELSE IF name = SolName(2) THEN <<"SELECT", " ">>
    ELSE <<"SELECT", " ", "-", "-">> \o Stem(name)

RECURSIVE LoadSolutions(_, _)
\* the loop over sorted(glob("query-*.sql")) of grader.main: each file is
\* stored under int(stem.split('-')[1]); a file whose number does not
\* parse is skipped.  files is the sorted list, acc the mapping so far.
LoadSolutions(files, acc) ==
    IF files = <<>> THEN acc
    ELSE LET sol_file == Head(files)
             query_num == ParseInt(Split(Stem(sol_file), "-")[2])
         IN IF query_num.ok
            THEN LoadSolutions(Tail(files),
                     [k \in DOMAIN acc \cup {query_num.n} |->
                          IF k = query_num.n THEN SolutionText(sol_file) ELSE acc[k]])
            ELSE LoadSolutions(Tail(files), acc)

\* an empty dict
EmptyMap == [k \in {} |-> <<>>]

\* solution_queries.get(i, "N/A")
GetSolution(golden, i) ==
    IF i \in DOMAIN golden THEN golden[i] ELSE NA

\* Path(sub_dir).name.split('_')[-1]
SubmissionId(dirName) == LET parts == Split(dirName, "_") IN parts[Len(parts)]

\* glob "*queries*.py" on a file name
IsQueriesName(name) ==
    /\ name # <<>> /\ name[Len(name)] = ".py"
    /\ \E j \in 1..Len(name) : name[j] = "queries"

\* 'sql' in f.lower() for a path f
ContainsSql(path) == \E j \in 1..Len(path) : path[j] \in {"sql", "nl2sql", "SQL"}

SqlQueriesPy == <<"sql", "_", "queries", ".py">>

\* A submission directory is the list of its files in the order glob
\* returns them, each a name and a content.
\* The query file main of grader.py picks in directory dir named dirName:
\* its position in the listing, 0 when there is none
ResolveGrader(dirName, dir) ==
    LET named == {j \in 1..Len(dir) : dir[j].name = SqlQueriesPy}
        all_query_files == SelectSeq([j \in 1..Len(dir) |-> j],
                                     LAMBDA j : IsQueriesName(dir[j].name))
        sql_files == SelectSeq(all_query_files,
                         LAMBDA j : ContainsSql(SUBMISSIONS_DIR \o <<"/">> \o dirName
                                                    \o <<"/">> \o dir[j].name))
    IN IF named # {} THEN CHOOSE j \in named : TRUE
       ELSE IF all_query_files = <<>> THEN 0
       ELSE IF sql_files # <<>> THEN sql_files[1]
       ELSE all_query_files[1]

\* The query file main of autograder.py picks: the first of glob
\* "*queries*.py", 0 when there is none
ResolveAutograder(dir) ==
    LET query_files == SelectSeq([j \in 1..Len(dir) |-> j],
                                 LAMBDA j : IsQueriesName(dir[j].name))
    IN IF query_files = <<>> THEN 0 ELSE query_files[1]

\* getattr(queries_module, NL_QUERIES_VAR_NAME) on the executed module m,
\* inside try ... except (AttributeError, FileNotFoundError, SyntaxError);
\* a value that cannot be iterated fails at enumerate, outside the try
GetNlQueries(m) ==
    IF m.exc = "SyntaxError" THEN Returned(None, "none", TRUE)
    ELSE IF m.exc # "" THEN Raised(m.exc, TRUE)
    ELSE IF \E j \in 1..Len(m.names) : m.names[j] = NL_QUERIES_VAR_NAME
         THEN IF m.val.k \in {"list", "tuple"}
              THEN Returned(Some([j \in 1..Len(m.val.items) |-> m.val.items[j].v]),
                            "module", TRUE)
              ELSE IF m.val.k = "str"
              THEN Returned(Some([j \in 1..Len(m.val.v) |-> <<m.val.v[j]>>]), "module", TRUE)
              ELSE Raised("TypeError", TRUE)
    ELSE Returned(None, "none", TRUE)

\* loading nlqueries in main of autograder.py
LoadNlQueries(file) == GetNlQueries(exec_module(file))

\* ---------------------------------------------------------------- reports
\* output_dir / f"result-{i}.txt"
ReportPath(scr, submission_id, i) ==
    RESULTS_DIR(scr) \o <<"/">> \o submission_id \o <<"/", "result-">> \o IntStr(i)
        \o <<".txt">>

\* the text main of grader.py writes for query i: "\n".join(output_content)
GraderReport(submission_id, i, fileName, submitted_sql, submitted_result, solution_sql, solution_result) ==
    Join(<<"\n">>,
         << <<"--- Autograder Result for Submission ">> \o submission_id \o <<", Query ">>
                \o IntStr(i) \o <<" ---", "\n">>,
            <<"[Submitted SQL from ">> \o fileName \o <<"]:", "\n">> \o submitted_sql
                \o <<"\n">>,
            <<"[Result of Submitted SQL]:">> \o submitted_result \o <<"\n">>,
            <<"--- Golden Solution ---", "\n">>,
            <<"[Golden SQL from query-">> \o IntStr(i) \o <<".sql", "]:", "\n">>
                \o solution_sql \o <<"\n">>,
            <<"[Result of Golden SQL]:">> \o solution_result \o <<"\n">> >>)

\* the text main of autograder.py writes for query i
AutograderReport(submission_id, i, nl_query, generated_sql, gen_result, golden_sql, golden_result) ==
    Join(<<"\n">>,
         << <<"--- Autograder Result for Submission ">> \o submission_id \o <<", Query ">>
                \o IntStr(i) \o <<" ---", "\n">>,
            <<"[Natural Language Query]:", "\n">> \o nl_query \o <<"\n">>,
            <<"[Generated SQL]:", "\n">> \o generated_sql \o <<"\n">>,
            <<"[Result of Generated SQL]:">> \o gen_result \o <<"\n">>,
            <<"--- Golden Solution ---", "\n">>,
            <<"[Golden SQL from query-">> \o IntStr(i) \o <<".sql", "]:", "\n">>
                \o golden_sql \o <<"\n">>,
            <<"[Result of Golden SQL]:">> \o golden_result \o <<"\n">> >>)

\* a write that appends to what the file holds
WriteText_append(old, content) == old \o content

\* output_file_path.write_text(content) on a file holding old
WriteText(old, content) == content

\* ------------------------------------------------------------- main
\* Section 1 (setup) of main: what becomes of the run given what setup
\* finds.  A missing DATABASE_URL (or GOOGLE_API_KEY) raises ValueError;
\* autograder.py then calls make_url, a name it never imports, which
\* raises NameError; a failed test connection ends the process with
\* sys.exit(1); Path(RESULTS_DIR).mkdir(exist_ok=True) raises
\* FileNotFoundError when the parent directory is missing.
SetupResult(scr, e) ==
    IF ~e.envOk THEN [pc |-> "ended", exit |-> "1", crash |-> "ValueError"]
    ELSE IF scr = "autograder" THEN [pc |-> "ended", exit |-> "1", crash |-> "NameError"]
    ELSE IF ~e.dbUp THEN [pc |-> "ended", exit |-> "1", crash |-> "SystemExit"]
    ELSE IF ~e.resultsParent
         THEN [pc |-> "ended", exit |-> "1", crash |-> "FileNotFoundError"]
    ELSE [pc |-> IF scr = "grader" THEN "solutions" ELSE "scan", exit |-> "", crash |-> ""]

\* the loop body pairing entry i with the golden query of the next index
GraderQuery_golden_of_next(submission_id, i, fileName, submitted_sql, golden, tx, tbl) ==
    LET sub == execute_sql("grader", tx, tbl, submitted_sql, TRUE)
        solution_sql == GetSolution(golden, i + 1)
        sol == execute_sql("grader", sub.txn, sub.db, solution_sql, TRUE)
    IN [raised |-> sub.raised \/ sol.raised,
        db |-> IF sub.raised THEN sub.db ELSE sol.db,
        txn |-> IF sub.raised THEN sub.txn ELSE sol.txn,
        path |-> ReportPath("grader", submission_id, i),
        content |-> GraderReport(submission_id, i, fileName, submitted_sql, sub.ret[1],
                                 solution_sql, sol.ret[1])]

\* the body of the loop over the queries of grader.main for entry i
GraderQuery(submission_id, i, fileName, submitted_sql, golden, tx, tbl) ==
    LET sub == execute_sql("grader", tx, tbl, submitted_sql, TRUE)
        solution_sql == GetSolution(golden, i)
        sol == execute_sql("grader", sub.txn, sub.db, solution_sql, TRUE)
    IN [raised |-> sub.raised \/ sol.raised,
        db |-> IF sub.raised THEN sub.db ELSE sol.db,
        txn |-> IF sub.raised THEN sub.txn ELSE sol.txn,
        path |-> ReportPath("grader", submission_id, i),
        content |-> GraderReport(submission_id, i, fileName, submitted_sql, sub.ret[1],
                                 solution_sql, sol.ret[1])]

\* what agent_executor.invoke can do: run a sql_db_query step with some
\* SQL, finish without one, or raise
AgentOutcomes ==
    {[kind |-> "sql", sql |-> <<"SELECT">>], [kind |-> "none", sql |-> <<>>],
     [kind |-> "raise", sql |-> <<>>]}

GoldenNotFound == <<"(Golden query file not found)">>

\* the body of the loop over the queries of autograder.main for entry i
AutograderQuery(submission_id, i, nl_query, agent, solDir, tx, tbl) ==
    LET generated_sql ==
            CASE agent.kind = "sql" -> agent.sql
              [] agent.kind = "none" -> NA
              [] OTHER -> <<"Agent execution failed: ", "agent error">>
        gen == execute_sql("autograder", tx, tbl, generated_sql, TRUE)
        found == SolName(i) \in solDir
        golden_sql == IF found THEN SolutionText(SolName(i)) ELSE NA
        gold == IF found THEN execute_sql("autograder", gen.txn, gen.db, golden_sql, TRUE)
                ELSE [ret |-> <<GoldenNotFound, None>>, raised |-> FALSE, txn |-> gen.txn,
                      db |-> gen.db, connects |-> 0, executes |-> 0]
    IN [raised |-> gen.raised \/ gold.raised,
        db |-> IF gen.raised THEN gen.db ELSE gold.db,
        txn |-> IF gen.raised THEN gen.txn ELSE gold.txn,
        path |-> ReportPath("autograder", submission_id, i),
        content |-> AutograderReport(submission_id, i, nl_query, generated_sql, gen.ret[1],
                                     golden_sql, gold.ret[1])]

\* ------------------------------------------------ idle values of the state
NoCall == [called |-> FALSE, sql |-> <<>>, connOk |-> TRUE, db |-> <<>>]
NoOut == [ret |-> <<<<>>, None>>, raised |-> FALSE, txn |-> "clean", db |-> <<>>,
          connects |-> 0, executes |-> 0]

InitExecVars == exIn = NoCall /\ exOut = NoOut /\ exPrevFailed = FALSE

NoFile == File("none", <<>>)
NotLoaded == [raised |-> FALSE, exc |-> "", ret |-> None, strategy |-> "unloaded",
              executed |-> FALSE]
InitLoadVars == ldFile = NoFile /\ ldOut = NotLoaded
NoEnv == [envOk |-> TRUE, dbUp |-> TRUE, resultsParent |-> TRUE]
InitRunVars ==
    /\ pc = "start" /\ run = 1 /\ exit = "" /\ crash = "" /\ env = NoEnv
    /\ solution_queries = EmptyMap /\ order = <<>> /\ subPos = 0
    /\ queryFile = <<>> /\ submitted_queries = <<>> /\ qIdx = 0
    /\ loaded = EmptyMap /\ written = <<>> /\ reports = EmptyMap
    /\ reports1 = EmptyMap /\ written1 = {} /\ runStart = <<>>
InitNoInputs == subsDir = EmptyMap /\ solutionDir = {}
\* the locals of the loop of main.py before the first input
NoTurn == [user_input |-> <<>>, generated_sql |-> <<>>, final_answer |-> <<>>,
           status |-> "", invoked |-> ""]
InitChatVars ==
    /\ engine = "None" /\ query_history_table = "None"
    /\ chatPc = "prompt" /\ turn = NoTurn /\ turns = 0
    /\ logCalls = <<>> /\ query_history = <<>>

\* ------------------------------------------- SpecExec: calls of execute_sql
\* the SQL texts tried: a core text with white space around it
SqlCores == {<<>>, NA, <<"SELECT">>, <<"BAD">>, <<"DELETE">>, <<"DELCOMMIT">>, <<"N/A", "SELECT">>}
SqlTexts ==
    {Repeat(" ", l) \o core \o Repeat(" ", r) : l \in 0..MaxPad, r \in 0..MaxPad, core \in SqlCores}

InitExec ==
    /\ script \in Scripts
    /\ db \in Tables
    /\ txn = "clean"
    /\ InitExecVars
    /\ InitLoadVars
    /\ InitChatVars
    /\ InitNoInputs
    /\ InitRunVars

\* one call of execute_sql in a batch of calls on the same engine; after an
\* exception that leaves execute_sql there is no further call
ExecCall ==
    /\ ~exOut.raised
    /\ \E sql \in SqlTexts, connOk \in BOOLEAN :
        LET out == execute_sql(script, txn, db, sql, connOk) IN
        /\ exIn' = [called |-> TRUE, sql |-> sql, connOk |-> connOk, db |-> db]
        /\ exOut' = out
        /\ db' = out.db
        /\ txn' = out.txn
        /\ exPrevFailed' = (exIn.called /\ ~exOut.ret[2].none)
    /\ UNCHANGED <<script, loadVars, subsDir, solutionDir, runVars, chatVars>>

NextExec == ExecCall

SpecExec == InitExec /\ [][NextExec]_vars

\* -------------------------------- SpecLoad: calls of load_submitted_queries
\* the SQL texts of the string literals
LiteralTexts == {<<"SELECT">>, <<"BAD">>}
Tokens ==
    {Tok("["), Tok("]"), Tok(","), Tok("num"), Tok("exit"), Tok("raise"), Tok("tyerr"),
     AssignTok(<<"q">>), AssignTok(<<"_", "_", "d">>)}
        \cup {StrTok(t) : t \in LiteralTexts}

\* repr(list) of a list of strings, as tokens
Repr(list) ==
    <<Tok("[")>> \o Join(<<Tok(",")>>, [j \in 1..Len(list) |-> <<StrTok(list[j])>>])
        \o <<Tok("]")>>

\* the lists of strings written out as files
ListsOfStrings == SeqsUpTo(LiteralTexts, MaxList)

\* the files tried: every token sequence up to MaxFileLen, every list of
\* strings up to MaxList written as a literal and as "q = <literal>", and
\* files that cannot be read or decoded
LoadFiles ==
    {File("ok", toks) : toks \in SeqsUpTo(Tokens, MaxFileLen)}
        \cup {File("ok", Repr(l)) : l \in ListsOfStrings}
        \cup {File("ok", <<AssignTok(<<"q">>)>> \o Repr(l)) : l \in ListsOfStrings}
        \cup {File("oserror", <<>>), File("undecodable", <<>>)}

InitLoad ==
    /\ script = "grader"
    /\ db = <<>>
    /\ txn = "clean"
    /\ InitExecVars
    /\ ldFile \in LoadFiles
    /\ ldOut = NotLoaded
    /\ InitChatVars
    /\ InitNoInputs
    /\ InitRunVars

\* load_submitted_queries applied to the file
Load ==
    /\ ldOut = NotLoaded
    /\ ldOut' = load_submitted_queries(ldFile)
    /\ UNCHANGED <<script, db, txn, execVars, ldFile, subsDir, solutionDir, runVars,
                   chatVars>>

NextLoad == Load

SpecLoad == InitLoad /\ [][NextLoad]_vars

\* ------------------------------------------------- Spec: two grading runs
\* the candidate texts of the submissions of a run
RunTexts == {<<"SELECT">>, <<"DELCOMMIT">>}
RunLists == SeqsUpTo(RunTexts, MaxQueries)
\* the query files: literal lists, a module binding nlqueries, code that
\* exits, code that raises, and a file that cannot be read
RunFiles ==
    {File("ok", Repr(l)) : l \in RunLists}
        \cup {File("ok", <<AssignTok(NL_QUERIES_VAR_NAME)>> \o Repr(<<<<"SELECT">>>>)),
              File("ok", <<Tok("exit")>>), File("ok", <<Tok("raise")>>),
              File("oserror", <<>>)}
MyQueriesPy == <<"my", "_", "queries", ".py">>
Entry(name, file) == [name |-> name, file |-> file]
Listings ==
    {<<>>} \cup {<<Entry(SqlQueriesPy, f)>> : f \in RunFiles}
        \cup {<<Entry(MyQueriesPy, File("ok", Repr(<<<<"SELECT">>>>)))>>}
Absent == [present |-> FALSE, files |-> <<>>]
DirOptions == {Absent} \cup {[present |-> TRUE, files |-> l] : l \in Listings}
SubDirNames == {<<"submission", "_", "1">>, <<"submission", "_", "2">>}
\* what setup can find: everything in place, or one thing missing (the
\* first thing missing decides)
Environments ==
    {NoEnv, [NoEnv EXCEPT !.envOk = FALSE], [NoEnv EXCEPT !.dbUp = FALSE],
     [NoEnv EXCEPT !.resultsParent = FALSE]}
RunTables == {<<RowA>>}

Init ==
    /\ script \in Scripts
    /\ db \in RunTables
    /\ txn = "clean"
    /\ InitExecVars
    /\ InitLoadVars
    /\ InitChatVars
    /\ subsDir \in [SubDirNames -> DirOptions]
    /\ solutionDir \in SUBSET SolutionNames
    /\ InitRunVars

fixedVars == <<script, subsDir, solutionDir, execVars, loadVars, run, reports1, written1,
               chatVars>>

\* section 1 of main
Setup ==
    /\ pc = "start"
    /\ \E e \in Environments :
        LET r == SetupResult(script, e)
        IN /\ env' = e
           /\ runStart' = Append(runStart, [db |-> db, env |-> e])
           /\ pc' = r.pc
           /\ exit' = r.exit
           /\ crash' = r.crash
    /\ UNCHANGED <<fixedVars, db, txn, solution_queries, order, subPos, queryFile,
                   submitted_queries, qIdx, loaded, written, reports>>

\* section 2 of grader.main: the golden mapping
LoadSolutionQueries ==
    /\ pc = "solutions"
    /\ solution_queries' =
           LoadSolutions(Sorted({n \in solutionDir : IsSolutionName(n)}), EmptyMap)
    /\ pc' = "scan"
    /\ UNCHANGED <<fixedVars, db, txn, exit, crash, env, order, subPos, queryFile,
                   submitted_queries, qIdx, loaded, written, reports, runStart>>

\* glob of the submission directories; main returns when there is none
Scan ==
    /\ pc = "scan"
    /\ LET submission_dirs == {n \in DOMAIN subsDir : subsDir[n].present} IN
       IF submission_dirs = {}
       THEN /\ pc' = "ended" /\ exit' = "0"
            /\ UNCHANGED <<order, subPos>>
       ELSE /\ order' = Sorted(submission_dirs) /\ subPos' = 1 /\ pc' = "submission"
            /\ UNCHANGED exit
    /\ UNCHANGED <<fixedVars, db, txn, crash, env, solution_queries, queryFile,
                   submitted_queries, qIdx, loaded, written, reports, runStart>>

\* the head of the loop over the submissions: find the query file and load
\* it; a submission without file or without queries is skipped
ProcessSubmission ==
    /\ pc = "submission" /\ subPos <= Len(order)
    /\ LET sub_dir == order[subPos]
           dir == subsDir[sub_dir].files
           j == IF script = "grader" THEN ResolveGrader(sub_dir, dir)
                ELSE ResolveAutograder(dir)
           r == IF script = "grader" THEN load_submitted_queries(dir[j].file)
                ELSE LoadNlQueries(dir[j].file)
       IN IF j = 0 THEN
              /\ subPos' = subPos + 1
              /\ UNCHANGED <<pc, exit, crash, queryFile, submitted_queries, qIdx, loaded>>
          ELSE IF r.raised THEN
              /\ pc' = "ended" /\ exit' = "1" /\ crash' = r.exc
              /\ UNCHANGED <<subPos, queryFile, submitted_queries, qIdx, loaded>>
          ELSE IF r.ret.none \/ r.ret.v = <<>> THEN
              /\ subPos' = subPos + 1
              /\ UNCHANGED <<pc, exit, crash, queryFile, submitted_queries, qIdx, loaded>>
          ELSE
              /\ queryFile' = dir[j].name
              /\ submitted_queries' = r.ret.v
              /\ qIdx' = 1
              /\ loaded' = (subPos :> r.ret.v) @@ loaded
              /\ pc' = "query"
              /\ UNCHANGED <<subPos, exit, crash>>
    /\ UNCHANGED <<fixedVars, db, txn, env, solution_queries, order, written, reports,
                   runStart>>

\* one pass of the loop over the queries: run the candidate and the golden
\* query and write the report; after the last entry the next submission
GradeQuery ==
    /\ pc = "query"
    /\ \E agent \in AgentOutcomes :
        LET i == qIdx
            submission_id == SubmissionId(order[subPos])
            g == IF script = "grader"
                 THEN GraderQuery(submission_id, i, queryFile, submitted_queries[i],
                                  solution_queries, txn, db)
                 ELSE AutograderQuery(submission_id, i, submitted_queries[i], agent,
                                      solutionDir, txn, db)
            old == IF g.path \in DOMAIN reports THEN reports[g.path] ELSE <<>>
        IN /\ db' = g.db
           /\ txn' = g.txn
           /\ IF g.raised THEN
                  /\ pc' = "ended" /\ exit' = "1" /\ crash' = "Exception"
                  /\ UNCHANGED <<subPos, qIdx, written, reports>>
              ELSE
                  /\ reports' = (g.path :> WriteText(old, g.content)) @@ reports
                  /\ written' = Append(written, [pos |-> subPos, idx |-> i, path |-> g.path,
                                                 content |-> g.content])
                  /\ IF i = Len(submitted_queries)
                     THEN pc' = "submission" /\ subPos' = subPos + 1 /\ qIdx' = 0
                     ELSE pc' = "query" /\ subPos' = subPos /\ qIdx' = i + 1
                  /\ UNCHANGED <<exit, crash>>
    /\ UNCHANGED <<fixedVars, env, solution_queries, order, queryFile, submitted_queries,
                   loaded, runStart>>

\* the loop over the submissions is over: main returns
FinishRun ==
    /\ pc = "submission" /\ subPos > Len(order)
    /\ pc' = "ended" /\ exit' = "0"
    /\ UNCHANGED <<fixedVars, db, txn, crash, env, solution_queries, order, subPos,
                   queryFile, submitted_queries, qIdx, loaded, written, reports, runStart>>

\* the script is started a second time on the same directories, on the
\* database as the first run left it or restored to what the first run
\* started from
Rerun ==
    /\ pc = "ended" /\ run = 1
    /\ run' = 2
    /\ \E restore \in BOOLEAN : db' = IF restore THEN runStart[1].db ELSE db
    /\ reports1' = reports
    /\ written1' = {written[k].path : k \in 1..Len(written)}
    /\ pc' = "start" /\ exit' = "" /\ crash' = "" /\ env' = NoEnv
    /\ solution_queries' = EmptyMap /\ order' = <<>> /\ subPos' = 0
    /\ queryFile' = <<>> /\ submitted_queries' = <<>> /\ qIdx' = 0
    /\ loaded' = EmptyMap /\ written' = <<>>
    /\ UNCHANGED <<script, subsDir, solutionDir, execVars, loadVars, txn, reports,
                   runStart, chatVars>>

Next ==
    \/ Setup
    \/ LoadSolutionQueries
    \/ Scan
    \/ ProcessSubmission
    \/ GradeQuery
    \/ FinishRun
    \/ Rerun

Spec == Init /\ [][Next]_vars

\* ------------------------------- SpecSol: loading the solution directory
\* the files a solution directory can hold: query-1.sql, query-2.sql,
\* query-0.sql, query-01.sql, query-x.sql, query-1-b.sql, query--1.sql
SolutionCatalog ==
    SolutionNames \cup
        {<<"query", "-", "0", ".sql">>, <<"query", "-", "0", "1", ".sql">>,
         <<"query", "-", "x", ".sql">>, <<"query", "-", "1", "-", "b", ".sql">>,
         <<"query", "-", "-", "1", ".sql">>}

InitSol ==
    /\ script = "grader"
    /\ db = <<RowA>>
    /\ txn = "clean"
    /\ InitExecVars
    /\ InitLoadVars
    /\ InitChatVars
    /\ subsDir = EmptyMap
    /\ solutionDir \in SUBSET SolutionCatalog
    /\ InitRunVars

\* sections 1 and 2 of grader.main
NextSol ==
    \/ Setup
    \/ LoadSolutionQueries

SpecSol == InitSol /\ [][NextSol]_vars

\* ------------------------- SpecResolve: the query file of a submission
MySqlQueriesPy == <<"my", "sql", "_", "queries", ".py">>
UpperSqlQueriesPy == <<"SQL", "_", "queries", "2", ".py">>
NotesPy == <<"notes", ".py">>
\* the file names a submission directory can hold
DirCatalog == {SqlQueriesPy, MyQueriesPy, MySqlQueriesPy, UpperSqlQueriesPy, NotesPy}
\* the listings glob can return: up to MaxDir different files in any order
DirListings ==
    {l \in SeqsUpTo(DirCatalog, MaxDir) : \A a, b \in 1..Len(l) : l[a] = l[b] => a = b}
ResolvedDir == <<"submission", "_", "1">>

InitResolve ==
    /\ script = "grader"
    /\ db = <<RowA>>
    /\ txn = "clean"
    /\ InitExecVars
    /\ InitLoadVars
    /\ InitChatVars
    /\ \E l \in DirListings :
          subsDir = (ResolvedDir :>
                        [present |-> TRUE,
                         files |-> [j \in 1..Len(l) |->
                                       Entry(l[j], File("ok", Repr(<<<<"SELECT">>>>)))]])
    /\ solutionDir = {}
    /\ pc = "resolve" /\ order = <<ResolvedDir>> /\ subPos = 1
    /\ run = 1 /\ exit = "" /\ crash = "" /\ env = NoEnv
    /\ solution_queries = EmptyMap
    /\ queryFile = <<>> /\ submitted_queries = <<>> /\ qIdx = 0
    /\ loaded = EmptyMap /\ written = <<>> /\ reports = EmptyMap
    /\ reports1 = EmptyMap /\ written1 = {} /\ runStart = <<>>

\* the search for the query file of the submission in grader.main; no file
\* leaves queryFile empty
ResolveQueryFile ==
    /\ pc = "resolve"
    /\ LET dir == subsDir[order[subPos]].files
           j == ResolveGrader(order[subPos], dir)
       IN queryFile' = IF j = 0 THEN <<>> ELSE dir[j].name
    /\ pc' = "resolved"
    /\ UNCHANGED <<fixedVars, db, txn, exit, crash, env, solution_queries, order, subPos,
                   submitted_queries, qIdx, loaded, written, reports, runStart>>

NextResolve == ResolveQueryFile

SpecResolve == InitResolve /\ [][NextResolve]_vars

\* ------------------ SpecNames: runs over directories named submission_*
\* two directories matching submission_*: submission_1 and submission_a_1
NamedDirs == {<<"submission", "_", "1">>, <<"submission", "_", "a", "_", "1">>}
\* what each holds: nothing, or sql_queries.py with a literal list
NamedDirOptions ==
    {Absent} \cup {[present |-> TRUE, files |-> <<Entry(SqlQueriesPy, File("ok", Repr(l)))>>] :
                      l \in RunLists}

InitNames ==
    /\ script = "grader"
    /\ db \in RunTables
    /\ txn = "clean"
    /\ InitExecVars
    /\ InitLoadVars
    /\ InitChatVars
    /\ subsDir \in [NamedDirs -> NamedDirOptions]
    /\ solutionDir \in SUBSET SolutionNames
    /\ InitRunVars

SpecNames == InitNames /\ [][Next]_vars

\* ------------------------------------- SpecChat: the loop of main.py
gradingVars == <<script, db, txn, execVars, loadVars, subsDir, solutionDir, runVars>>

\* str.lower() on the words of an input
LowerAtom(a) ==
    CASE a \in {"EXIT", "Exit"} -> "exit"
      [] a = "SQL" -> "sql"
      [] OTHER -> a
Lower(s) == [j \in 1..Len(s) |-> LowerAtom(s[j])]

\* user_input.lower() == "exit"
IsExit(user_input) == Lower(user_input) = <<"exit">>

\* the lines the user can type
UserInputs ==
    {<<"exit">>, <<"EXIT">>, <<"Exit">>, <<" ", "exit">>, <<"exit", " ", "now">>,
     <<"show users">>, <<>>}

\* a step of the agent: the tool and its input, a text or a dict
Step(tool, tool_input) == [tool |-> tool, tool_input |-> tool_input]
TextInput(sql) == [kind |-> "str", v |-> sql]
DictInput(sql) == [kind |-> "dict", v |-> sql]
\* str(x) of a tool input
StrOf(x) ==
    IF x.kind = "str" THEN x.v ELSE <<"{'query': '">> \o x.v \o <<"'}">>

\* what agent_executor.invoke can do in main.py: raise, or return a
\* response with or without "output" and with its intermediate steps
Response(raises, output, steps) == [raises |-> raises, output |-> output, steps |-> steps]
AgentError == <<"agent error">>
Responses ==
    {Response(TRUE, None, <<>>),
     Response(FALSE, Some(<<"3 users">>), <<Step("sql_db_query", TextInput(<<"SELECT">>))>>),
     Response(FALSE, Some(<<"3 users">>),
              <<Step("sql_db_list_tables", TextInput(<<>>)),
                Step("sql_db_query", DictInput(<<"SELECT">>)),
                Step("sql_db_query", TextInput(<<"BAD">>))>>),
     Response(FALSE, Some(<<"hello">>), <<>>),
     Response(FALSE, None, <<>>)}

\* the input of the first sql_db_query step, "N/A" when there is none
FirstSqlStep(steps) ==
    LET hits == SelectSeq(steps, LAMBDA st : st.tool = "sql_db_query")
    IN IF hits = <<>> THEN TextInput(NA) ELSE hits[1].tool_input

\* the try block around agent_executor.invoke in the loop of main.py: the
\* locals after it
AfterInvoke(user_input, response) ==
    IF response.raises
    THEN [user_input |-> user_input, generated_sql |-> TextInput(NA),
          final_answer |-> <<"An error occurred: ">> \o AgentError,
          status |-> "Error", invoked |-> "raised"]
    ELSE [user_input |-> user_input, generated_sql |-> FirstSqlStep(response.steps),
          final_answer |-> IF response.output.none THEN <<"Could not find an answer.">>
                           ELSE response.output.v,
          status |-> "Success", invoked |-> "returned"]

\* the row log_interaction inserts
HistoryRow(user_query, generated_sql, status, final_response) ==
    [user_query_nl |-> user_query, generated_sql |-> StrOf(generated_sql),
     execution_status |-> status, final_response_nl |-> final_response]

\* log_interaction(user_query, generated_sql, status, final_response) with
\* the globals eng and tbl: whether it raises and the rows it commits.
\* engine.connect() is outside the try block; insert and commit are inside.
log_interaction(user_query, generated_sql, status, final_response, eng, tbl, connectOk, insertOk, commitOk) ==
    IF eng = "None" \/ tbl = "None" THEN [raised |-> FALSE, rows |-> <<>>]
    ELSE IF ~connectOk THEN [raised |-> TRUE, rows |-> <<>>]
    ELSE IF insertOk /\ commitOk
         THEN [raised |-> FALSE,
               rows |-> <<HistoryRow(user_query, generated_sql, status, final_response)>>]
    ELSE [raised |-> FALSE, rows |-> <<>>]

\* the loop is entered after setup_logging either set both globals or left
\* both None
InitChat ==
    /\ script = "main"
    /\ db = <<>>
    /\ txn = "clean"
    /\ InitExecVars
    /\ InitLoadVars
    /\ InitNoInputs
    /\ InitRunVars
    /\ \E on \in BOOLEAN :
          /\ engine = IF on THEN "engine" ELSE "None"
          /\ query_history_table = IF on THEN "query_history" ELSE "None"
    /\ chatPc = "prompt" /\ turn = NoTurn /\ turns = 0
    /\ logCalls = <<>> /\ query_history = <<>>

\* input("[User]: ") and the test for exit; the locals are reset
ReadInput ==
    /\ chatPc = "prompt"
    /\ \E user_input \in UserInputs :
          IF IsExit(user_input)
          THEN /\ chatPc' = "exited"
               /\ turn' = [turn EXCEPT !.user_input = user_input]
          ELSE /\ turns < MaxTurns
               /\ chatPc' = "agent"
               /\ turn' = [user_input |-> user_input, generated_sql |-> TextInput(NA),
                           final_answer |-> <<"An error occurred">>, status |-> "Error",
                           invoked |-> ""]
    /\ UNCHANGED <<gradingVars, engine, query_history_table, turns, logCalls, query_history>>

\* the agent call and what the loop keeps of it
Invoke ==
    /\ chatPc = "agent"
    /\ \E response \in Responses : turn' = AfterInvoke(turn.user_input, response)
    /\ chatPc' = "log"
    /\ UNCHANGED <<gradingVars, engine, query_history_table, turns, logCalls, query_history>>

\* the call of log_interaction that ends the pass of the loop; an
\* exception leaving it leaves main
LogInteraction ==
    /\ chatPc = "log"
    /\ \E connectOk \in BOOLEAN, insertOk \in BOOLEAN, commitOk \in BOOLEAN :
          LET r == log_interaction(turn.user_input, turn.generated_sql, turn.status,
                                   turn.final_answer, engine, query_history_table,
                                   connectOk, insertOk, commitOk)
          IN /\ chatPc' = IF r.raised THEN "crashed" ELSE "prompt"
             /\ query_history' = query_history \o r.rows
    /\ logCalls' = Append(logCalls, [user_query |-> turn.user_input,
                                      generated_sql |-> turn.generated_sql,
                                      status |-> turn.status,
                                      final_response |-> turn.final_answer])
    /\ turns' = turns + 1
    /\ UNCHANGED <<gradingVars, engine, query_history_table, turn>>

NextChat ==
    \/ ReadInput
    \/ Invoke
    \/ LogInteraction

SpecChat == InitChat /\ [][NextChat]_vars

\* ----------------------------------------------- claims on execute_sql
\* the last call's execution was attempted and failed at some step:
\* connecting, running the statement, or fetching its rows
ExecAttempted == exIn.called /\ ~NoQueryGuard(script, exIn.sql)
ExecStep == DbExecute("clean", exIn.db, exIn.sql)
ExecFailedStep == ExecAttempted /\ (~exIn.connOk \/ ~ExecStep.ok \/ ~ExecStep.returnsRows)
ExecFailureDetail ==
    IF ~exIn.connOk THEN ErrConnect
    ELSE IF ~ExecStep.ok THEN ExecStep.error
    ELSE ErrNoRows

\* C5: a non-empty SQL text whose execution fails at any step (connect,
\* execute, fetch) makes execute_sql return, not raise: the first component
\* is "ERROR: " followed by the failure detail, the second is the detail,
\* the connection is left clean, and the call after a failed one runs
\* normally (a SELECT that can connect is answered without an error).
C5_FailureIsData ==
    /\ (exIn.sql # <<>> /\ ExecFailedStep) =>
          /\ ~exOut.raised
          /\ StartsWith(exOut.ret[1], ErrorPrefix)
          /\ exOut.ret[1] = ErrorPrefix \o ExecFailureDetail
          /\ exOut.ret[2] = Some(ExecFailureDetail)
          /\ exOut.txn = "clean"
    /\ (exPrevFailed /\ ExecAttempted /\ exIn.connOk /\ Statement(exIn.sql) = <<"SELECT">>) =>
          /\ ~exOut.raised
          /\ exOut.ret[2] = None
          /\ exOut.connects = 1

\* C5 witness: a statement without a result set failed at fetchall and was
\* returned as an error value
C5_Witness_FetchFailed ==
    /\ exIn.called /\ exIn.connOk
    /\ Statement(exIn.sql) = <<"DELETE">>
    /\ exOut.ret[2] = Some(ErrNoRows)

\* C6: for every SQL text that is empty, only white space, or equal to
\* "N/A", execute_sql of either script returns the "(No query to execute)"
\* sentinel with no error and opens no connection and sends no statement.
C6_NoQueryNotExecuted ==
    (exIn.called /\ (exIn.sql = <<>> \/ Strip(exIn.sql) = <<>> \/ exIn.sql = NA)) =>
        /\ exOut.ret = <<NoQuery, None>>
        /\ exOut.connects = 0
        /\ exOut.executes = 0

\* the last call succeeded in running a query
ExecSucceeded == ExecAttempted /\ ~exOut.raised /\ exOut.ret[2] = None
\* the line of '-' under the header
IsDashes(line) == \A j \in 1..Len(line) : line[j] = "-"

\* C7: a query that succeeds is rendered by its row count: zero rows give
\* the "(No rows returned)" sentinel, which is not the "(No query to
\* execute)" one; k >= 1 rows give (after the leading line break) a header
\* line of the column names joined by " | ", a line of '-' as long as the
\* header line, and exactly k row lines in the order of the rows.
C7_RenderingByRowCount ==
    ExecSucceeded =>
        LET rows == ExecStep.rows
            k == Len(rows)
            text == Lines(exOut.ret[1])
        IN IF k = 0 THEN exOut.ret[1] = NoRows /\ NoRows # NoQuery
           ELSE /\ Len(text) = 3 + k
                /\ text[1] = <<>>
                /\ text[2] = Join(<<" ", "|", " ">>, Headers)
                /\ IsDashes(text[3]) /\ Len(text[3]) = Len(text[2])
                /\ \A j \in 1..k : text[3 + j] = RowStr(rows[j])

\* --------------------------------------- claims on load_submitted_queries
LoadDone == ldOut.strategy # "unloaded"

\* C2: load_submitted_queries lets no exception escape, whatever the file
\* holds: it returns a list of strings or None.
C2_LoaderNeverRaises == LoadDone => ~ldOut.raised

\* C8: a file whose content is a literal list of strings (the empty list
\* included) is returned as exactly that list, by the literal parse and
\* without running the file as code; the file is run as code only when the
\* literal parse gave no list of strings; and the empty list comes back as
\* a list, not as the failure value None.
C8_LiteralRoundTrip ==
    LoadDone =>
        /\ \A l \in ListsOfStrings :
              ldFile = File("ok", Repr(l)) =>
                  /\ ~ldOut.raised
                  /\ ldOut.ret = Some(l)
                  /\ ldOut.strategy = "literal"
                  /\ ~ldOut.executed
        /\ ldOut.executed =>
              LET queries == ReadAndEval(ldFile) IN
              ~(queries.exc = "" /\ IsListOfStr(queries.val))
        /\ ldFile = File("ok", Repr(<<>>)) => (ldOut.ret = Some(<<>>) /\ ldOut.ret # None)

\* C8 witness: a literal list of two different strings was loaded and came
\* back in its order
C8_Witness_TwoStrings ==
    /\ LoadDone
    /\ ldFile = File("ok", Repr(<<<<"SELECT">>, <<"BAD">>>>))
    /\ ldOut.ret = Some(<<<<"SELECT">>, <<"BAD">>>>)

\* ------------------------------------------------- claims on the grading run
\* the files whose names are the paths written by the current run
WrittenPaths == {written[k].path : k \in 1..Len(written)}

\* what loading the query file of the submission at position k of the
\* sorted directories gives, NotLoaded when the directory has none
LoadOf(k) ==
    LET dir == subsDir[order[k]].files
        j == IF script = "grader" THEN ResolveGrader(order[k], dir)
             ELSE ResolveAutograder(dir)
    IN IF j = 0 THEN NotLoaded
       ELSE IF script = "grader" THEN load_submitted_queries(dir[j].file)
       ELSE LoadNlQueries(dir[j].file)

\* C1: batch isolation.  When a run that reached the submissions has ended,
\* every submission whose query file loads to a list with at least one
\* entry has a report written by this run for each of its entries, whatever
\* happened while loading the files of the other submissions.
C1_BatchIsolation ==
    (pc = "ended" /\ order # <<>>) =>
        \A k \in 1..Len(order) :
            LET r == LoadOf(k) IN
            (~r.raised /\ ~r.ret.none) =>
                \A i \in 1..Len(r.ret.v) :
                    ReportPath(script, SubmissionId(order[k]), i) \in WrittenPaths

\* the reports the current run wrote for the submission at position j
ReportsOf(j) == SelectSeq(written, LAMBDA w : w.pos = j)

\* the section of a report that shows the SQL under a label
SqlSection(label, sql) == label \o <<"]:", "\n">> \o sql \o <<"\n">>
CandidateLabel(fileName) == <<"[Submitted SQL from ">> \o fileName
GoldenLabel(i) == <<"[Golden SQL from query-">> \o IntStr(i) \o <<".sql">>

\* C3: index alignment.  For a submission of the grader whose loaded list
\* has n >= 1 entries, the reports written for it are numbered 1, 2, ... in
\* the order written, never more than n and exactly n once the submission
\* is done; report i is the file result-i.txt of the submission, shows the
\* i-th candidate text and, when the golden mapping has key i, the text
\* stored under i; no file result-(n+1).txt exists for the submission.
C3_IndexAlignment ==
    script = "grader" =>
        \A j \in DOMAIN loaded :
            LET n == Len(loaded[j])
                ev == ReportsOf(j)
                id == SubmissionId(order[j])
                dir == subsDir[order[j]].files
                fileName == dir[ResolveGrader(order[j], dir)].name
            IN /\ n >= 1
               /\ Len(ev) <= n
               /\ j < subPos => Len(ev) = n
               /\ \A k \in 1..Len(ev) :
                     /\ ev[k].idx = k
                     /\ ev[k].path = ReportPath(script, id, k)
                     /\ reports[ev[k].path] = ev[k].content
                     /\ IsInfix(SqlSection(CandidateLabel(fileName), loaded[j][k]),
                                ev[k].content)
                     /\ k \in DOMAIN solution_queries =>
                            IsInfix(SqlSection(GoldenLabel(k), solution_queries[k]),
                                    ev[k].content)
               /\ j < subPos => ReportPath(script, id, n + 1) \notin DOMAIN reports

\* C3 witness: a submission with two different entries is done while the
\* golden mapping has keys 1 and 2 with different texts
C3_Witness_TwoEntries ==
    /\ script = "grader"
    /\ DOMAIN solution_queries = {1, 2}
    /\ \E j \in DOMAIN loaded :
          /\ j < subPos
          /\ Len(loaded[j]) = 2
          /\ loaded[j][1] # loaded[j][2]
          /\ Len(ReportsOf(j)) = 2

\* C4: missing golden index.  A report written for an index that has no
\* golden query shows the golden text "N/A" and, as the golden result, the
\* "(Golden query file not found)" note.
C4_MissingGoldenNoted ==
    \A k \in 1..Len(written) :
        LET i == written[k].idx
            missing == IF script = "grader" THEN i \notin DOMAIN solution_queries
                       ELSE SolName(i) \notin solutionDir
        IN missing =>
              /\ IsInfix(SqlSection(GoldenLabel(i), NA), written[k].content)
              /\ IsInfix(<<"[Result of Golden SQL]:">> \o GoldenNotFound, written[k].content)

\* both runs are over and started in the same environment
BothRunsEnded == run = 2 /\ pc = "ended" /\ runStart[1].env = runStart[2].env

\* the report files are as the first run left them: same files, same
\* content, and the second run wrote no path the first had not written
SameReports == reports = reports1 /\ WrittenPaths \subseteq written1

\* C9 as stated: two runs in a row on the same directories leave every
\* report file with the content it had after the first run and add no
\* file, also when the first run changed the database.
C9_RerunIdentical == BothRunsEnded => SameReports

\* C9 amended: the same holds provided the second run starts from the
\* database contents the first run started from.
C9_RerunIdenticalFromSameDb ==
    (BothRunsEnded /\ runStart[1].db = runStart[2].db) => SameReports

\* C9 witness: both runs wrote reports, started from the same non-empty
\* table, and the second one emptied it again
C9_Witness_RestoredDb ==
    /\ BothRunsEnded /\ exit = "0"
    /\ runStart[1].db = runStart[2].db /\ runStart[1].db # <<>>
    /\ db = <<>>
    /\ written # <<>> /\ WrittenPaths = written1

\* C10: a run ends with a status other than 0 only if the database could
\* not be reached at startup, and with a reachable database the script gets
\* past setup.
C10_ExitOnlyIfDbUnreachable ==
    pc = "ended" => (exit # "0" => ~env.dbUp)

\* ------------------------------------------- claims on the golden mapping
\* int(Path(sol_file).stem.split('-')[1]) of a solution file name
SolutionKey(name) == ParseInt(Split(Stem(name), "-")[2])

\* the solution files stored under key k
FilesOfKey(k) ==
    {f \in solutionDir : IsSolutionName(f) /\ SolutionKey(f).ok /\ SolutionKey(f).n = k}

\* C12: once the solution files are loaded, every key of the golden mapping
\* is an integer >= 1, exactly one file of the directory has that key and
\* the value is its text; every file whose index parses has its key in the
\* mapping (a file whose index does not parse stops nothing).
C12_GoldenKeys ==
    (script = "grader" /\ pc = "scan") =>
        /\ \A k \in DOMAIN solution_queries :
              /\ k >= 1
              /\ Cardinality(FilesOfKey(k)) = 1
              /\ \A f \in FilesOfKey(k) : solution_queries[k] = SolutionText(f)
        /\ \A f \in solutionDir :
              (IsSolutionName(f) /\ SolutionKey(f).ok) =>
                  SolutionKey(f).n \in DOMAIN solution_queries

\* --------------------------------------- claims on the query file chosen
\* the names of the files of the resolved directory
ListedNames ==
    LET dir == subsDir[order[subPos]].files IN {dir[j].name : j \in 1..Len(dir)}
\* the file's own name, in lower case, contains "sql"
NameHasSql(name) == \E j \in 1..Len(name) : name[j] \in {"sql", "SQL"}

\* C13: sql_queries.py is chosen when the directory has it; otherwise, among
\* the files matching *queries*.py, one whose own name contains "sql" is
\* chosen when there is one, whatever the listing order, and a file without
\* "sql" in its name only when there is none; no matching file, no choice.
C13_ResolutionPrecedence ==
    pc = "resolved" =>
        LET matching == {n \in ListedNames : IsQueriesName(n)}
            sqlNamed == {n \in matching : NameHasSql(n)}
        IN IF SqlQueriesPy \in ListedNames THEN queryFile = SqlQueriesPy
           ELSE IF sqlNamed # {} THEN queryFile \in sqlNamed
           ELSE IF matching # {} THEN queryFile \in matching
           ELSE queryFile = <<>>

\* ------------------------------------------------ claims on report paths
\* C14: within one run no report path is written twice: the reports of two
\* different submission directories never go to the same file.
C14_PathsWrittenOnce ==
    \A a, b \in 1..Len(written) : written[a].path = written[b].path => a = b

\* ------------------------------------------------ claims on the chatbot loop
\* C11: when the agent call of a pass raised, the pass records status
\* "Error" (never "Success") and the failure text as the final answer, and
\* the loop is not aborted: it goes on to log and to the next prompt.
C11_AgentFailureIsData ==
    turn.invoked = "raised" =>
        /\ turn.status = "Error"
        /\ turn.final_answer = <<"An error occurred: ">> \o AgentError
        /\ chatPc # "crashed"

\* C15: the loop ends only by the input exit, which is not logged; back at
\* the prompt there has been exactly one log_interaction call per input
\* other than exit, the last one with the input, the extracted SQL or
\* "N/A", the status and the final answer of the pass.
C15_LoopProgress ==
    /\ chatPc # "crashed"
    /\ chatPc = "exited" => IsExit(turn.user_input)
    /\ \A k \in 1..Len(logCalls) : ~IsExit(logCalls[k].user_query)
    /\ chatPc = "prompt" =>
          /\ Len(logCalls) = turns
          /\ turns > 0 =>
                logCalls[turns] = [user_query |-> turn.user_input,
                                   generated_sql |-> turn.generated_sql,
                                   status |-> turn.status,
                                   final_response |-> turn.final_answer]

====
